---- MODULE Spec2Model ----
(***************************************************************************)
(* Model of the awedio Symphonia-backed decoders:                          *)
(*   - OpusDecoder       (src/sounds/decoders/opus.rs)                     *)
(*   - SymphoniaDecoder  (src/sounds/decoders/symphonia.rs)                *)
(* The inner libopus decoder, the demuxer and the registry-made inner      *)
(* decoder are external collaborators: their answers are nondeterministic. *)
(***************************************************************************)
EXTENDS Integers, Sequences, FiniteSets, TLC

(***************************************************************************)
(* Program constants                                                       *)
(***************************************************************************)
\* std::i32::MAX
I32_MAX == 2147483647

\* pub const AUDIO_FRAME_RATE: usize = 50;
AUDIO_FRAME_RATE == 50

\* The sample rates accepted by the match in OpusDecoder::try_new.
OpusSampleRates == {8000, 12000, 16000, 24000, 48000}

\* Values of params.sample_rate handed to try_new: the accepted ones, an
\* unsupported rate, and None (absent).
NoRate == 0
ParamSampleRates == OpusSampleRates \cup {44100, NoRate}

\* Shapes of packet.buf(): empty, convertible to an audiopus packet, or
\* longer than i32::MAX bytes (the conversion fails).
PacketShapes == {"empty", "fits", "too_large"}

Min(a, b) == IF a <= b THEN a ELSE b

(***************************************************************************)
(* State of the Opus adapter                                               *)
(***************************************************************************)
VARIABLES
    opus_pc,          \* "unconstructed", "idle", "decoding", "panicked"
    try_new_arg,      \* params.sample_rate given to try_new
    try_new_result,   \* "none", "Ok", "Err", "panic"
    opus_sample_rate, \* OpusDecoder.sample_rate
    rawbuf_len,       \* OpusDecoder.rawbuf.len()
    buf_capacity,     \* OpusDecoder.buf capacity in frames
    buf_frames,       \* OpusDecoder.buf.frames()
    inner_sessions,   \* number of AudiopusDecoder sessions created
    packet,           \* shape of the packet of the decode call in progress
    inner_arg,        \* what the last decode_float call received as packet
    inner_resp,       \* last answer of inner.decode_float
    grows,            \* buffer growths during the decode call in progress
    opus_result,      \* what the last decode call returned
    rawbuf,           \* OpusDecoder.rawbuf, its first 2 * Window elements
    planes,           \* the two planes of OpusDecoder.buf, Window frames each
    s_ct,             \* samples per channel the last decode_float reported
    inner_reset       \* inner.reset_state() ran after the last decode call

opus_vars == <<opus_pc, try_new_arg, try_new_result, opus_sample_rate, rawbuf_len, buf_capacity, buf_frames,
               inner_sessions, packet, inner_arg, inner_resp, grows, opus_result,
               rawbuf, planes, s_ct, inner_reset>>


(***************************************************************************)
(* OpusDecoder                                                             *)
(***************************************************************************)
\* Bound of the model: the frames of rawbuf and of the planes whose contents
\* are followed (the buffers themselves are as long as the code makes them).
Window == 2

\* Samples are told apart by where they come from: the 0.0 of an allocation
\* or a resize, or element at of the output of a decode_float call, which is
\* the call of the decode in progress ("this") or one of an earlier decode.
Zero == [age |-> "zero", at |-> 0]
Written(j) == [age |-> "this", at |-> j]
Aged(cell) == IF cell.age = "this" THEN [cell EXCEPT !.age = "earlier"] ELSE cell

\* vec![0.0f32; stereo_frame_size]
ZeroRawbuf == [j \in 0..(2 * Window - 1) |-> Zero]

\* AudioBuffer::new(..): both planes zeroed, no frames rendered.
ZeroPlanes == [ch \in 0..1 |-> [i \in 0..(Window - 1) |-> Zero]]

OpusInit ==
    /\ rawbuf = ZeroRawbuf
    /\ planes = ZeroPlanes
    /\ s_ct = 0
    /\ inner_reset = FALSE
    /\ opus_pc = "unconstructed"
    /\ try_new_arg = NoRate
    /\ try_new_result = "none"
    /\ opus_sample_rate = 0
    /\ rawbuf_len = 0
    /\ buf_capacity = 0
    /\ buf_frames = 0
    /\ inner_sessions = 0
    /\ packet = "none"
    /\ inner_arg = "none"
    /\ inner_resp = "none"
    /\ grows = 0
    /\ opus_result = "none"

\* let mono_frame_size = sample_rate_raw as usize / AUDIO_FRAME_RATE;
mono_frame_size(sample_rate_raw) == sample_rate_raw \div AUDIO_FRAME_RATE

\* let stereo_frame_size = mono_frame_size * 2;
stereo_frame_size(sample_rate_raw) == mono_frame_size(sample_rate_raw) * 2

\* OpusDecoder::try_new: the match on params.sample_rate; every rate outside
\* the five accepted ones, None included, reaches the panic!() arm.
try_new(rate) ==
    /\ opus_pc = "unconstructed"
    /\ try_new_arg' = rate
    /\ IF rate \in OpusSampleRates
       THEN /\ inner_sessions' = inner_sessions + 1
            /\ opus_sample_rate' = rate
            /\ rawbuf_len' = stereo_frame_size(rate)
            /\ buf_capacity' = mono_frame_size(rate)
            /\ buf_frames' = 0
            /\ rawbuf' = ZeroRawbuf
            /\ planes' = ZeroPlanes
            /\ try_new_result' = "Ok"
            /\ opus_pc' = "idle"
       ELSE /\ try_new_result' = "panic"
            /\ opus_pc' = "panicked"
            /\ UNCHANGED <<inner_sessions, opus_sample_rate, rawbuf_len,
                           buf_capacity, buf_frames, rawbuf, planes>>
    /\ UNCHANGED <<packet, inner_arg, inner_resp, grows, opus_result, s_ct,
                   inner_reset>>

\* Mutation of new_size: the buffer grows by half instead of doubling.
new_size_mul3div2(len) == Min(len + len \div 2, I32_MAX)

\* Mutation of new_size: the ceiling is one below i32::MAX.
new_size_low_ceiling(len) ==
    IF len > (I32_MAX - 1) \div 2 THEN I32_MAX - 1 ELSE len * 2

\* let new_size = (self.rawbuf.len() * 2).min(std::i32::MAX as usize);
\* (usize is wider than 32 bits there, so the product itself cannot wrap;
\* the comparison keeps the product inside TLC's 32-bit integers.)
new_size(len) == IF len > I32_MAX \div 2 THEN I32_MAX ELSE len * 2

\* Per-channel sample counts the inner decoder may report for an output
\* space of len interleaved stereo samples (never more than fit).
OkCounts(len) == {0, 1, len \div 2}

\* Answers of self.inner.decode_float(pkt, out_space, false).
InnerResponses(len) ==
    {[kind |-> "Ok", v |-> n] : n \in OkCounts(len)}
        \cup {[kind |-> "BufferTooSmall", v |-> 0], [kind |-> "Other", v |-> 0]}

\* Mutation of pkt_of: an empty packet is handed over like any other.
pkt_of_no_empty_check(p) == IF p = "too_large" THEN "TooLarge" ELSE "Some"

\* let pkt = if packet.buf().is_empty() { None }
\*           else if let Ok(checked_pkt) = packet.buf().try_into() { Some(..) }
\*           else { return decode_error(..) };
pkt_of(p) ==
    IF p = "empty" THEN "None"
    ELSE IF p = "fits" THEN "Some"
    ELSE "TooLarge"

\* What decode_float leaves in out_space when it reports n samples per
\* channel: 2 * n interleaved samples from the start, the rest untouched.
decode_float_output(out_space, n) ==
    [j \in 0..(2 * Window - 1) |-> IF j < 2 * n THEN Written(j) ELSE out_space[j]]

\* Mutation of deinterleave: both planes are filled from the left channel.
deinterleave_left_only(buf, raw, n) ==
    [ch \in 0..1 |-> [i \in 0..(Window - 1) |->
        IF i < n THEN raw[2 * i] ELSE buf[ch][i]]]

\* for ch in 0..2 { zip(buf.chan_mut(ch), rawbuf.chunks_exact(2).map(|c| c[ch])) }
\* on a buffer with n rendered frames; n never exceeds the chunks of rawbuf.
deinterleave(buf, raw, n) ==
    [ch \in 0..1 |-> [i \in 0..(Window - 1) |->
        IF i < n THEN raw[2 * i + ch] ELSE buf[ch][i]]]

\* Mutation of frame_capacity: one frame per element of rawbuf.
frame_capacity_per_element(len) == len

\* AudioBuffer::new(self.rawbuf.len() as u64 / 2, ..)
frame_capacity(len) == len \div 2

\* OpusDecoder::decode is entered with a packet; decode_inner's loop follows.
\* What the buffers hold from now on comes from an earlier decode.
decode(pkt) ==
    /\ opus_pc = "idle"
    /\ opus_pc' = "decoding"
    /\ packet' = pkt
    /\ inner_arg' = "none"
    /\ inner_resp' = "none"
    /\ grows' = 0
    /\ opus_result' = "none"
    /\ s_ct' = 0
    /\ inner_reset' = FALSE
    /\ rawbuf' = [j \in DOMAIN rawbuf |-> Aged(rawbuf[j])]
    /\ planes' = [ch \in DOMAIN planes |->
                    [i \in DOMAIN planes[ch] |-> Aged(planes[ch][i])]]
    /\ UNCHANGED <<try_new_arg, try_new_result, opus_sample_rate, rawbuf_len,
                   buf_capacity, buf_frames, inner_sessions>>

\* OpusDecoder::reset: _ = self.inner.reset_state(); nothing of the adapter
\* itself changes.
reset ==
    /\ opus_pc = "idle"
    /\ inner_reset' = TRUE
    /\ UNCHANGED <<opus_pc, try_new_arg, try_new_result, opus_sample_rate,
                   rawbuf_len, buf_capacity, buf_frames, inner_sessions,
                   packet, inner_arg, inner_resp, grows, opus_result, rawbuf,
                   planes, s_ct>>

\* The Err arm of OpusDecoder::decode: self.buf.clear(); Err(e)
decode_err(e) ==
    /\ buf_frames' = 0
    /\ opus_result' = e
    /\ opus_pc' = "idle"

\* One iteration of the loop of decode_inner, with the return path of decode
\* when the iteration leaves the loop.
decode_inner ==
    /\ opus_pc = "decoding"
    /\ IF pkt_of(packet) = "TooLarge"
       THEN /\ decode_err("Err_packet_too_large")
            /\ UNCHANGED <<rawbuf_len, buf_capacity, inner_arg, inner_resp, grows,
                           rawbuf, planes, s_ct>>
       ELSE /\ inner_arg' = pkt_of(packet)
            /\ \E r \in InnerResponses(rawbuf_len) :
                /\ inner_resp' = r.kind
                /\ CASE r.kind = "Ok" ->
                          \* self.buf.clear(); self.buf.render_reserved(Some(s_ct));
                          /\ s_ct' = r.v
                          /\ rawbuf' = decode_float_output(rawbuf, r.v)
                          /\ IF r.v > buf_capacity
                             THEN /\ opus_pc' = "panicked"
                                  /\ opus_result' = "panic"
                                  /\ buf_frames' = 0
                                  /\ UNCHANGED planes
                             ELSE /\ opus_pc' = "idle"
                                  /\ opus_result' = "Ok"
                                  /\ buf_frames' = r.v
                                  /\ planes' = deinterleave(planes,
                                        decode_float_output(rawbuf, r.v), r.v)
                          /\ UNCHANGED <<rawbuf_len, buf_capacity, grows>>
                     [] r.kind = "BufferTooSmall" ->
                          IF new_size(rawbuf_len) = rawbuf_len
                          THEN /\ decode_err("Err_cannot_expand")
                               /\ UNCHANGED <<rawbuf_len, buf_capacity, grows,
                                              rawbuf, planes, s_ct>>
                          ELSE \* rawbuf.resize(new_size, 0.0) keeps what is
                               \* there; self.buf is a new, zeroed buffer.
                               /\ rawbuf_len' = new_size(rawbuf_len)
                               /\ buf_capacity' = frame_capacity(new_size(rawbuf_len))
                               /\ buf_frames' = 0
                               /\ planes' = ZeroPlanes
                               /\ grows' = grows + 1
                               /\ UNCHANGED <<opus_pc, opus_result, rawbuf, s_ct>>
                     [] OTHER ->
                          /\ decode_err("Err_opus_decode")
                          /\ UNCHANGED <<rawbuf_len, buf_capacity, grows,
                                         rawbuf, planes, s_ct>>
    /\ UNCHANGED <<try_new_arg, try_new_result, opus_sample_rate, inner_sessions,
                   packet, inner_reset>>

(***************************************************************************)
(* SymphoniaDecoder                                                        *)
(***************************************************************************)
\* Bounds of the model.
MaxPackets == 4     \* packets the demuxer still holds when the session opens
MaxFrames == 2      \* frames per channel in one decoded audio buffer
MaxSampleIdx == 3   \* next_sample is not called beyond this next_sample_idx
MaxNFrames == 2     \* largest n_frames of the codec parameters
MaxTs == 3          \* largest timestamp a seek target converts to

\* sample_rate: 1000 in the struct literal of SymphoniaDecoder::new
PlaceholderRate == 1000

TrackIds == {1, 2}
FrameRates == {44100, 48000}
\* Channels is a set of speaker positions; Channels::empty() is {}.
FrameLayouts == {{"FL"}, {"FR"}, {"FL", "FR"}}

\* symphonia::core::errors::Error; the I/O variant carries the kind and the
\* message of the std::io::Error.
IoErrors ==
    {[variant |-> "IoError", kind |-> k, msg |-> m] :
        k \in {"UnexpectedEof", "Other"}, m \in {"end of stream", "other"}}

Errors ==
    IoErrors \cup
    {[variant |-> v, kind |-> "-", msg |-> "-"] :
        v \in {"DecodeError", "SeekError", "Unsupported", "LimitError", "ResetRequired"}}

\* Decoded audio buffers the inner decoder may produce.
Frames ==
    [frames : 0..MaxFrames, channels : FrameLayouts, rate : FrameRates]

NoEvent == [kind |-> "none"]

\* What seek reads of self.decoder.codec_params(): whether time_base,
\* n_frames and sample_rate are Some, and the value of n_frames.
SeekParams ==
    {p \in [time_base : BOOLEAN, n_frames_known : BOOLEAN,
            n_frames : 0..MaxNFrames, sample_rate_known : BOOLEAN] :
        ~p.n_frames_known => p.n_frames = 0}

\* The codec parameters of the sessions whose samples are followed: a known
\* sample rate, time base and frame count both known or both unknown, a
\* frame count of zero or the largest one.
SessionSeekParams ==
    {p \in SeekParams :
        /\ p.time_base = p.n_frames_known
        /\ p.sample_rate_known
        /\ p.n_frames \in {0, MaxNFrames}}

\* Errors of self.probed.format.seek.
SeekErrors ==
    {e \in Errors :
        \/ e.variant = "SeekError"
        \/ (e.variant = "IoError" /\ e.kind = "Other" /\ e.msg = "other")}

NoSeek == [kind |-> "none"]

\* f32 values of the gain, in halves (2 is 1.0), and NaN.
F32(h) == [nan |-> FALSE, halves |-> h]
NaN == [nan |-> TRUE, halves |-> 0]

\* Arguments of set_sample_mult: -1.0, 0.5, 2.0 and NaN.
GainArgs == {F32(-2), F32(1), F32(4), NaN}

\* 16-bit samples that extract_sample reads out of a decoded buffer.
SampleValues == {-32768, -3, 32767}

\* The sample read in the sessions whose gain is never set.
PlainSampleValues == {-3}

VARIABLES
    sym_pc,            \* "unopened", "idle", "decode_next_packet", "panicked"
    caller,            \* who entered decode_next_packet: "new" or "next_sample"
    track_id,          \* SymphoniaDecoder.track_id
    sample_rate,       \* SymphoniaDecoder.sample_rate
    channels,          \* SymphoniaDecoder.channels
    next_channel_idx,  \* SymphoniaDecoder.next_channel_idx
    next_sample_idx,   \* SymphoniaDecoder.next_sample_idx
    last_decoded,      \* self.decoder.last_decoded()
    remaining,         \* packets the demuxer can still deliver
    event,             \* what the last loop iteration got from its collaborators
    result,            \* what the last next_sample call returned
    failed,            \* some next_sample call has returned an error
    sample_mult,       \* SymphoniaDecoder.sample_mult
    mult_arg,          \* argument of the last set_sample_mult call
    last_seek,         \* the seek call that has just returned, if any
    unread             \* samples of the last decoded frame not returned yet

sym_vars == <<sym_pc, caller, track_id, sample_rate, channels, next_channel_idx,
              next_sample_idx, last_decoded, remaining, event, result, failed,
              sample_mult, mult_arg, last_seek, unread>>

vars == <<opus_vars, sym_vars>>

SymInit ==
    /\ sym_pc = "unopened"
    /\ caller = "none"
    /\ track_id = 0
    /\ sample_rate = 0
    /\ channels = {}
    /\ next_channel_idx = 0
    /\ next_sample_idx = 0
    /\ last_decoded = [frames |-> 0, channels |-> {}, rate |-> 0]
    /\ remaining = MaxPackets
    /\ event = NoEvent
    /\ result = [kind |-> "none"]
    /\ failed = FALSE
    /\ sample_mult = F32(0)
    /\ mult_arg = [set |-> FALSE, mult |-> F32(0)]
    /\ last_seek = NoSeek
    /\ unread = 0

Init == OpusInit /\ SymInit

\* Mutation of IsEndOfStream: the message of the I/O error is not compared.
IsEndOfStream_kind_only(e) == e.variant = "IoError" /\ e.kind = "UnexpectedEof"

\* The guard of the end-of-stream arm of next_sample:
\* err.kind() == UnexpectedEof && err.to_string() == "end of stream"
IsEndOfStream(e) ==
    /\ e.variant = "IoError"
    /\ e.kind = "UnexpectedEof"
    /\ e.msg = "end of stream"

\* Mutation of Recoverable: the ResetRequired arm is missing.
Recoverable_decode_only(e) == e.variant = "DecodeError"

\* Mutation of Recoverable: the DecodeError arm is missing.
Recoverable_reset_only(e) == e.variant = "ResetRequired"

\* The two Err arms of the match on self.decoder.decode(&packet) that continue.
Recoverable(e) == e.variant \in {"DecodeError", "ResetRequired"}

\* impl From<Error> for crate::Error
FromError(e) ==
    IF e.variant = "IoError"
    THEN [kind |-> "Err", category |-> "IoError", cause |-> e]
    ELSE [kind |-> "Err", category |-> "FormatError", cause |-> e]

\* extract_sample: buffer.chan(channel_idx)[sample_idx]; indexing outside the
\* buffer's channels or frames panics.
extract_sample(buffer, channel_idx, sample_idx) ==
    IF channel_idx < Cardinality(buffer.channels) /\ sample_idx < buffer.frames
    THEN [kind |-> "Sample", ch |-> channel_idx, idx |-> sample_idx]
    ELSE [kind |-> "panic"]

\* SymphoniaDecoder::new, from the struct literal up to the call of
\* decode_next_packet; tid is the id of the first track with a known codec.
new(tid) ==
    /\ sym_pc = "unopened"
    /\ sample_rate' = PlaceholderRate
    /\ channels' = {}
    /\ track_id' = tid
    /\ next_channel_idx' = 0
    /\ next_sample_idx' = 0
    /\ sym_pc' = "decode_next_packet"
    /\ caller' = "new"
    /\ sample_mult' = F32(2)
    /\ UNCHANGED <<last_decoded, remaining, event, result, failed, mult_arg,
                   last_seek, unread>>

\* Mutation of clamp: the upper bound is missing.
clamp_lower_only(mult) ==
    IF mult.nan THEN mult ELSE F32(IF mult.halves < 0 THEN 0 ELSE mult.halves)

\* mult.clamp(0.0, 1.0); f32::clamp returns NaN for NaN.
clamp(mult) ==
    IF mult.nan THEN mult
    ELSE F32(IF mult.halves < 0 THEN 0
             ELSE IF mult.halves > 2 THEN 2
             ELSE mult.halves)

\* (f32::from(sample) * mult) as i32: the cast truncates toward zero and
\* turns NaN into 0.
as_i32(raw, mult) ==
    IF mult.nan THEN 0
    ELSE LET product == raw * mult.halves
         IN  IF product >= 0 THEN product \div 2 ELSE -((-product) \div 2)

\* i16::try_from(sample).unwrap() on the scaled sample read at position at.
scaled(at, raw, mult) ==
    LET sample == as_i32(raw, mult) IN
    IF sample >= -32768 /\ sample <= 32767
    THEN [kind |-> "Sample", ch |-> at.ch, idx |-> at.idx, raw |-> raw,
          sample |-> sample]
    ELSE [kind |-> "panic"]

\* SymphoniaDecoder::set_sample_mult
set_sample_mult(mult) ==
    /\ sym_pc = "idle"
    /\ sample_mult' = clamp(mult)
    /\ mult_arg' = [set |-> TRUE, mult |-> mult]
    /\ UNCHANGED <<sym_pc, caller, track_id, sample_rate, channels,
                   next_channel_idx, next_sample_idx, last_decoded, remaining,
                   event, result, failed, last_seek, unread>>

\* Mutation of emit_sample: the channel cursor is not advanced.
emit_sample_cursor_kept(buf_ref, ch, idx, raw, avail) ==
    LET at == extract_sample(buf_ref, ch, idx)
        sample == IF at.kind = "Sample" THEN scaled(at, raw, sample_mult) ELSE at
    IN
    /\ result' = sample
    /\ next_sample_idx' = idx
    /\ next_channel_idx' = ch
    /\ IF sample.kind = "Sample"
       THEN /\ unread' = avail - 1
            /\ sym_pc' = "idle"
       ELSE /\ unread' = avail
            /\ sym_pc' = "panicked"

\* The tail of next_sample: extract the sample at the cursor out of buf_ref
\* and advance the channel cursor. avail samples of buf_ref were unread.
emit_sample(buf_ref, ch, idx, raw, avail) ==
    LET at == extract_sample(buf_ref, ch, idx)
        sample == IF at.kind = "Sample" THEN scaled(at, raw, sample_mult) ELSE at
    IN
    /\ result' = sample
    /\ next_sample_idx' = idx
    /\ IF sample.kind = "Sample"
       THEN /\ next_channel_idx' = ch + 1
            /\ unread' = avail - 1
            /\ sym_pc' = "idle"
       ELSE /\ next_channel_idx' = ch
            /\ unread' = avail
            /\ sym_pc' = "panicked"

\* Mutation of channels_exhausted: the comparison is strict.
channels_exhausted_strict == next_channel_idx > Cardinality(channels)

\* if self.next_channel_idx >= self.channels.count().try_into().unwrap()
channels_exhausted == next_channel_idx >= Cardinality(channels)

\* next_sample up to the point where it either returns a sample of the
\* current buffer or enters decode_next_packet.
next_sample(raw) ==
    /\ sym_pc = "idle"
    /\ next_sample_idx < MaxSampleIdx
    /\ LET wrap == channels_exhausted
           ch == IF wrap THEN 0 ELSE next_channel_idx
           idx == IF wrap THEN next_sample_idx + 1 ELSE next_sample_idx
       IN  IF idx >= last_decoded.frames
           THEN /\ next_channel_idx' = ch
                /\ next_sample_idx' = idx
                /\ sym_pc' = "decode_next_packet"
                /\ caller' = "next_sample"
                /\ event' = NoEvent
                /\ UNCHANGED <<result, unread>>
           ELSE /\ emit_sample(last_decoded, ch, idx, raw, unread)
                /\ caller' = "next_sample"
                /\ event' = NoEvent
    /\ last_seek' = NoSeek
    /\ UNCHANGED <<track_id, sample_rate, channels, last_decoded, remaining,
                   failed, sample_mult, mult_arg>>

\* Mutation of return_err: the error is swallowed and the loop goes round
\* again.
return_err_swallowed(e) ==
    UNCHANGED <<sym_pc, track_id, sample_rate, channels, next_channel_idx,
                next_sample_idx, caller, result, failed, unread>>

\* decode_next_packet returns Err(e): new drops it, next_sample maps it.
return_err(e) ==
    /\ sym_pc' = "idle"
    /\ IF caller = "new"
       THEN UNCHANGED <<result, failed>>
       ELSE IF IsEndOfStream(e)
            THEN /\ result' = [kind |-> "Finished"]
                 /\ UNCHANGED failed
            ELSE /\ result' = FromError(e)
                 /\ failed' = TRUE
    /\ UNCHANGED <<track_id, sample_rate, channels, next_channel_idx,
                   next_sample_idx, caller, unread>>

\* The loop of decode_next_packet goes round again.
continue ==
    UNCHANGED <<sym_pc, track_id, sample_rate, channels, next_channel_idx,
                next_sample_idx, caller, result, failed, unread>>

\* Mutation of metadata_changed: the sample rate is not compared.
metadata_changed_channels_only(buf_ref) == buf_ref.channels # channels

\* The buffer's spec differs from the recorded channels or sample rate.
metadata_changed(buf_ref) ==
    buf_ref.channels # channels \/ buf_ref.rate # sample_rate

\* Samples a decoded buffer holds: frames times channels.
samples_of(buf_ref) == buf_ref.frames * Cardinality(buf_ref.channels)

\* decode_next_packet after a successful decode, and what its caller does
\* with Ok(metadata_changed).
decoded(buf_ref, raw) ==
    /\ channels' = buf_ref.channels
    /\ sample_rate' = buf_ref.rate
    /\ IF caller = "new"
       THEN /\ sym_pc' = "idle"
            /\ next_channel_idx' = 0
            /\ next_sample_idx' = 0
            /\ unread' = samples_of(buf_ref)
            /\ UNCHANGED result
       ELSE IF metadata_changed(buf_ref)
            THEN /\ sym_pc' = "idle"
                 /\ next_channel_idx' = 0
                 /\ next_sample_idx' = 0
                 /\ unread' = samples_of(buf_ref)
                 /\ result' = [kind |-> "MetadataChanged"]
            ELSE emit_sample(buf_ref, 0, 0, raw, samples_of(buf_ref))
    /\ UNCHANGED <<track_id, caller, failed>>

\* Mutation of is_foreign: the track id of the packet is not looked at.
is_foreign_never(tid) == FALSE

\* if packet.track_id() != self.track_id { continue; }
is_foreign(tid) == tid # track_id

\* One iteration of the loop of decode_next_packet, with the return path of
\* the caller when the iteration leaves the loop.
decode_next_packet(raw) ==
    /\ sym_pc = "decode_next_packet"
    /\ UNCHANGED <<last_seek, sample_mult, mult_arg>>
    /\ \/ \E e \in Errors :
            \* self.probed.format.next_packet()?
            /\ event' = [kind |-> "fetch_err", err |-> e]
            /\ return_err(e)
            /\ UNCHANGED <<last_decoded, remaining>>
       \/ /\ remaining > 0
          /\ remaining' = remaining - 1
          /\ \E tid \in TrackIds :
                IF is_foreign(tid)
                THEN /\ event' = [kind |-> "foreign", tid |-> tid]
                     /\ continue
                     /\ UNCHANGED last_decoded
                ELSE \/ \E buf_ref \in Frames :
                          /\ event' = [kind |-> "frame", tid |-> tid, buf |-> buf_ref]
                          /\ last_decoded' = buf_ref
                          /\ decoded(buf_ref, raw)
                     \/ \E e \in Errors :
                          /\ event' = [kind |-> "decode_err", tid |-> tid, err |-> e]
                          /\ last_decoded' = [last_decoded EXCEPT !.frames = 0]
                          /\ IF Recoverable(e) THEN continue ELSE return_err(e)

\* ts.min(max - 1) in seek, in a build without overflow checks: for max = 0
\* the subtraction wraps to u64::MAX and the minimum is ts itself.
seek_ts(ts, max) == IF max = 0 THEN ts ELSE Min(ts, max - 1)

\* Mutation of seek_frame: seek rewinds the cursors.
seek_frame_rewinds ==
    /\ next_channel_idx' = 0
    /\ next_sample_idx' = 0
    /\ UNCHANGED <<track_id, sample_rate, channels, last_decoded, caller,
                   event, result, failed, sample_mult, mult_arg, unread>>

\* What seek leaves alone: it only reads the codec parameters and moves the
\* demuxer.
seek_frame ==
    UNCHANGED <<track_id, sample_rate, channels, next_channel_idx,
                next_sample_idx, last_decoded, caller, event, result, failed,
                sample_mult, mult_arg, unread>>

\* The rest of seek once seek_to is built: the demuxer's seek, then the
\* conversion of the position reached, which unwraps par.sample_rate.
seek_demuxer(call, seek_to) ==
    \/ \E e \in SeekErrors :
          \* self.probed.format.seek(SeekMode::Coarse, seek_to)?
          /\ last_seek' = [call EXCEPT !.kind = "Err", !.seek_to = seek_to]
          /\ UNCHANGED <<sym_pc, remaining>>
    \/ \E left \in {remaining, MaxPackets} :
          /\ remaining' = left
          /\ IF call.par.sample_rate_known
             THEN /\ last_seek' = [call EXCEPT !.kind = "Ok", !.seek_to = seek_to]
                  /\ UNCHANGED sym_pc
             ELSE /\ last_seek' = [call EXCEPT !.kind = "panic",
                                               !.seek_to = seek_to]
                  /\ sym_pc' = "panicked"

\* SymphoniaDecoder::seek. par are the codec parameters, ts is
\* time_base.calc_timestamp(time) (or the time itself without a time base).
\* For n_frames = 0 the subtraction max - 1 overflows: a build with overflow
\* checks panics there, a build without them goes on with the wrapped value.
seek(par, ts) ==
    /\ sym_pc = "idle"
    /\ seek_frame
    /\ LET clamped == par.time_base /\ par.n_frames_known
           underflow == clamped /\ par.n_frames = 0
           seek_to == IF clamped
                      THEN [kind |-> "TimeStamp", ts |-> seek_ts(ts, par.n_frames)]
                      ELSE [kind |-> "Time", ts |-> ts]
           call == [kind |-> "seek", par |-> par, target |-> ts,
                   underflow |-> underflow, seek_to |-> [kind |-> "none", ts |-> 0]]
       IN  IF underflow
           THEN \/ /\ last_seek' = [call EXCEPT !.kind = "panic"]
                   /\ sym_pc' = "panicked"
                   /\ UNCHANGED remaining
                \/ seek_demuxer(call, seek_to)
           ELSE seek_demuxer(call, seek_to)

(***************************************************************************)
(* Specifications                                                          *)
(***************************************************************************)
OpusNext ==
    \/ \E rate \in ParamSampleRates : try_new(rate) /\ UNCHANGED sym_vars
    \/ \E pkt \in PacketShapes : decode(pkt) /\ UNCHANGED sym_vars
    \/ decode_inner /\ UNCHANGED sym_vars
    \/ reset /\ UNCHANGED sym_vars

SymNext ==
    \/ \E tid \in TrackIds : new(tid) /\ UNCHANGED opus_vars
    \/ \E raw \in PlainSampleValues : next_sample(raw) /\ UNCHANGED opus_vars
    \/ \E raw \in PlainSampleValues :
          decode_next_packet(raw) /\ UNCHANGED opus_vars
    \/ \E par \in SessionSeekParams : seek(par, MaxTs) /\ UNCHANGED opus_vars

\* Opening a session and seeking in it, for every shape of the codec
\* parameters and every target.
SeekNext ==
    \/ \E tid \in TrackIds : new(tid) /\ UNCHANGED opus_vars
    \/ \E raw \in PlainSampleValues :
          decode_next_packet(raw) /\ UNCHANGED opus_vars
    \/ \E par \in SeekParams, ts \in 0..MaxTs : seek(par, ts) /\ UNCHANGED opus_vars

\* The Opus adapter on its own.
OpusSpec == Init /\ [][OpusNext]_vars

\* The Opus adapter, whose decode call runs on once entered.
OpusFairSpec == OpusSpec /\ WF_vars(decode_inner /\ UNCHANGED sym_vars)

\* Playing a session of the generic adapter while its gain is set.
GainNext ==
    \/ \E tid \in TrackIds : new(tid) /\ UNCHANGED opus_vars
    \/ \E raw \in SampleValues : next_sample(raw) /\ UNCHANGED opus_vars
    \/ \E raw \in SampleValues : decode_next_packet(raw) /\ UNCHANGED opus_vars
    \/ \E mult \in GainArgs : set_sample_mult(mult) /\ UNCHANGED opus_vars

\* The generic adapter on its own.
Spec == Init /\ [][SymNext]_vars

\* The generic adapter, whose packet loop runs on once entered.
SymFairSpec ==
    Spec /\ WF_vars(\E raw \in PlainSampleValues :
                        decode_next_packet(raw) /\ UNCHANGED opus_vars)

\* A session of the generic adapter that is played while its gain is set.
GainSpec == Init /\ [][GainNext]_vars

\* A freshly opened session of the generic adapter that is only sought in.
SeekSpec == Init /\ [][SeekNext]_vars

(***************************************************************************)
(* Properties of the Opus adapter                                          *)
(***************************************************************************)
\* C1: within one decode call, every "buffer too small" answer that is
\* followed by a retry strictly increases the scratch buffer length, to
\* min(2 * old length, i32::MAX), and the length never exceeds i32::MAX.
C1_BufferGrowth ==
    /\ [][(opus_pc = "decoding" /\ opus_pc' = "decoding"
              /\ inner_resp' = "BufferTooSmall")
            => /\ rawbuf_len' > rawbuf_len
               /\ rawbuf_len' = (IF rawbuf_len > I32_MAX \div 2
                                 THEN I32_MAX ELSE 2 * rawbuf_len)]_vars
    /\ [](rawbuf_len <= I32_MAX)

\* A retry has grown the scratch buffer up to the ceiling.
C1_Witness ==
    /\ opus_pc = "decoding"
    /\ inner_resp = "BufferTooSmall"
    /\ grows >= 1
    /\ rawbuf_len = I32_MAX

\* C2: a decode call always ends, also when every answer is "buffer too
\* small"; the cannot-expand error is returned exactly when such an answer
\* meets a scratch buffer whose length already is i32::MAX.
C2_DecodeTerminates ==
    /\ (opus_pc = "decoding") ~> (opus_pc # "decoding")
    /\ []((opus_result = "Err_cannot_expand")
            => (rawbuf_len = I32_MAX /\ inner_resp = "BufferTooSmall"))
    /\ [][(opus_pc = "decoding" /\ inner_resp' = "BufferTooSmall"
              /\ rawbuf_len = I32_MAX /\ vars' # vars)
            => (opus_result' = "Err_cannot_expand" /\ opus_pc' = "idle")]_vars

\* A decode call that grew the buffer has ended with the cannot-expand error.
C2_Witness ==
    /\ opus_pc = "idle"
    /\ opus_result = "Err_cannot_expand"
    /\ grows >= 1

\* C3: try_new with a sample rate outside the admissible set (absent
\* included) returns a configuration error, creates no decoder session,
\* performs no decode and does not panic.
C3_UnsupportedRateIsError ==
    (try_new_result # "none" /\ try_new_arg \notin OpusSampleRates)
        => /\ try_new_result = "Err"
           /\ opus_pc # "panicked"
           /\ inner_sessions = 0
           /\ opus_result = "none"

\* C4 as stated: decoding a zero-byte packet passes "no packet" to the inner
\* decoder and returns a successful frame, never a fatal error.
C4_EmptyPacketNeverFails ==
    (packet = "empty" /\ opus_pc = "idle" /\ opus_result # "none")
        => (inner_arg = "None" /\ opus_result = "Ok")

\* C4 as amended: decoding a zero-byte packet passes "no packet" to the inner
\* decoder and is never rejected as too large; it returns a successful frame
\* exactly when the inner decoder answers Ok, and a fatal decode error when
\* the inner decoder reports an error or the buffer cannot grow further.
C4_EmptyPacketPassesNone ==
    /\ (packet = "empty" /\ inner_resp # "none") => inner_arg = "None"
    /\ (packet = "empty" /\ opus_pc = "idle" /\ opus_result # "none")
          => /\ inner_arg = "None"
             /\ opus_result # "Err_packet_too_large"
             /\ (opus_result = "Ok") <=> (inner_resp = "Ok")
             /\ (opus_result = "Err_opus_decode") <=> (inner_resp = "Other")
             /\ (opus_result = "Err_cannot_expand")
                    <=> (inner_resp = "BufferTooSmall")

\* A zero-byte packet has been decoded to a frame after a buffer growth.
C4_Witness ==
    /\ packet = "empty"
    /\ opus_pc = "idle"
    /\ inner_arg = "None"
    /\ opus_result = "Ok"
    /\ grows >= 1

\* C17: after a successful decode for which the inner decoder reported n
\* samples per channel, the output frame has n frames, plane ch holds at
\* index i element 2*i + ch of what this decode left in the scratch buffer,
\* and no rendered frame shows a sample of an earlier decode.
C17_Deinterleaved ==
    (opus_pc = "idle" /\ opus_result = "Ok")
        => /\ buf_frames = s_ct
           /\ \A ch \in 0..1 : \A i \in 0..(Window - 1) :
                 i < s_ct => /\ planes[ch][i] = rawbuf[2 * i + ch]
                             /\ planes[ch][i].age = "this"
                             /\ planes[ch][i].at = 2 * i + ch
           /\ \A ch \in 0..1 : \A i \in 0..(Window - 1) :
                 i < buf_frames => planes[ch][i].age # "earlier"

\* A decode of one frame after a longer one: the second frame of the planes
\* still holds the earlier samples, beyond the rendered frames.
C17_Witness ==
    /\ opus_pc = "idle"
    /\ opus_result = "Ok"
    /\ s_ct = 1
    /\ buf_frames = 1
    /\ planes[1][0] = Written(1)
    /\ planes[1][1].age = "earlier"

\* C19: between calls (after construction, a successful or a failed decode,
\* a reset) the frame buffer's capacity is floor(rawbuf length / 2), so a
\* sample count that fits the scratch buffer never overruns the frame
\* buffer; and after a failed decode the last decoded frame has no frames.
C19_CapacityFollowsRawbuf ==
    /\ opus_pc = "idle" => /\ buf_capacity = rawbuf_len \div 2
                           /\ buf_frames <= buf_capacity
    /\ opus_pc = "panicked" => try_new_result = "panic"
    /\ (opus_pc = "idle" /\ opus_result \notin {"none", "Ok"})
          => buf_frames = 0

\* A decode has failed at the ceiling of the scratch buffer, whose length is
\* odd there, and reset was called afterwards.
C19_Witness ==
    /\ opus_pc = "idle"
    /\ inner_reset
    /\ opus_result = "Err_cannot_expand"
    /\ rawbuf_len = I32_MAX
    /\ buf_capacity = 1073741823
    /\ buf_frames = 0

(***************************************************************************)
(* Properties of the generic adapter                                       *)
(***************************************************************************)
\* A step in which a next_sample call returns (without panicking).
NextSampleReturns ==
    /\ sym_pc' = "idle"
    /\ caller' = "next_sample"
    /\ \/ sym_pc = "decode_next_packet"
       \/ /\ sym_pc = "idle"
          /\ <<next_channel_idx, next_sample_idx>>'
                # <<next_channel_idx, next_sample_idx>>

\* A step in which the inner decoder decodes a packet to a buffer.
DecodesFrame ==
    /\ sym_pc = "decode_next_packet"
    /\ remaining' = remaining - 1
    /\ event'.kind = "frame"

\* C5: a next_sample call returns MetadataChanged exactly when the buffer
\* it decoded differs in sample rate or channel layout from the values
\* recorded in the session; a buffer with the metadata of the buffer decoded
\* before it never produces MetadataChanged.
C5_MetadataChangedOnce ==
    /\ [][NextSampleReturns
            => ((result'.kind = "MetadataChanged")
                  <=> (/\ DecodesFrame
                       /\ (\/ event'.buf.channels # channels
                           \/ event'.buf.rate # sample_rate)))]_vars
    /\ [][(/\ DecodesFrame
           /\ caller = "next_sample"
           /\ event'.buf.channels = last_decoded.channels
           /\ event'.buf.rate = last_decoded.rate)
            => result'.kind # "MetadataChanged"]_vars

\* next_sample has just returned MetadataChanged for a newly decoded buffer,
\* whose channels and sample rate are now the recorded ones.
C5_Witness ==
    /\ sym_pc = "idle"
    /\ caller = "next_sample"
    /\ result.kind = "MetadataChanged"
    /\ event.kind = "frame"
    /\ sample_rate = event.buf.rate
    /\ channels = event.buf.channels
    /\ failed = FALSE

\* C6: when fetching or decoding the next packet ends next_sample with an
\* error, the call returns Finished if the error is the I/O "unexpected end"
\* error with the end-of-stream message, and otherwise returns that error.
C6_EndOfStreamIsFinished ==
    (sym_pc = "idle" /\ caller = "next_sample"
        /\ event.kind \in {"fetch_err", "decode_err"})
        => IF /\ event.err.variant = "IoError"
              /\ event.err.kind = "UnexpectedEof"
              /\ event.err.msg = "end of stream"
           THEN result.kind = "Finished"
           ELSE result.kind = "Err" /\ result.cause = event.err

\* The demuxer reported the end of the stream and next_sample returned
\* Finished.
C6_Witness ==
    /\ sym_pc = "idle"
    /\ caller = "next_sample"
    /\ event.kind = "fetch_err"
    /\ result.kind = "Finished"

\* C7: once next_sample has returned a fatal error, no later next_sample
\* call returns a Sample.
C7_NoSampleAfterFatal == failed => result.kind # "Sample"

\* C8: a packet of another track is never handed to the inner decoder,
\* leaves the cursors, the recorded channels and sample rate and the last
\* decoded buffer unchanged, returns nothing, and the loop goes on.
C8_ForeignPacketSkipped ==
    /\ [][(sym_pc = "decode_next_packet" /\ remaining' = remaining - 1
              /\ event'.kind = "foreign")
            => /\ sym_pc' = "decode_next_packet"
               /\ UNCHANGED <<next_channel_idx, next_sample_idx, channels,
                              sample_rate, last_decoded, result, failed>>]_vars
    /\ [](event.kind = "foreign" => event.tid # track_id)
    /\ [](event.kind \in {"frame", "decode_err"} => event.tid = track_id)

\* A packet of another track was skipped inside a next_sample call.
C8_Witness ==
    /\ sym_pc = "decode_next_packet"
    /\ caller = "next_sample"
    /\ event.kind = "foreign"
    /\ event.tid # track_id

\* C9: a tracked packet whose decode fails with a decode error or with
\* reset-required is skipped: decode_next_packet does not return, the
\* cursors and the recorded channels and sample rate stay, the loop goes on,
\* and no next_sample call returns a failure caused by such a packet.
C9_BadPacketSkipped ==
    /\ [][(/\ sym_pc = "decode_next_packet"
           /\ remaining' = remaining - 1
           /\ event'.kind = "decode_err"
           /\ event'.err.variant \in {"DecodeError", "ResetRequired"})
            => /\ sym_pc' = "decode_next_packet"
               /\ UNCHANGED <<next_channel_idx, next_sample_idx, channels,
                              sample_rate, result, failed, caller>>]_vars
    /\ []((sym_pc = "idle" /\ event.kind = "decode_err")
            => event.err.variant \notin {"DecodeError", "ResetRequired"})

\* Inside a next_sample call a tracked packet failed to decode with a decode
\* error and the loop is still running.
C9_Witness ==
    /\ sym_pc = "decode_next_packet"
    /\ caller = "next_sample"
    /\ event.kind = "decode_err"
    /\ event.err.variant = "DecodeError"

\* C10 as stated: no next_sample call returns an error whose cause is
\* reset-required, whichever collaborator raised it.
C10_ResetNeverSurfaced ==
    result.kind = "Err" => result.cause.variant # "ResetRequired"

\* C10 as amended: a reset-required raised by the inner decoder's decode is
\* never returned by next_sample; an error with that cause comes only from
\* the demuxer's next_packet and is returned as a format error.
C10_DecoderResetConsumed ==
    /\ (event.kind = "decode_err" /\ event.err.variant = "ResetRequired")
          => sym_pc = "decode_next_packet"
    /\ (sym_pc = "idle" /\ result.kind = "Err"
          /\ result.cause.variant = "ResetRequired")
          => (event.kind = "fetch_err" /\ result.category = "FormatError")

\* The inner decoder asked for a reset inside a next_sample call that had
\* returned an error before, and the call goes on.
C10_Witness ==
    /\ sym_pc = "decode_next_packet"
    /\ caller = "next_sample"
    /\ event.kind = "decode_err"
    /\ event.err.variant = "ResetRequired"
    /\ result.kind = "Err"

\* C11: whenever opening a session succeeds, the recorded sample rate and
\* channel layout are those of the first decoded buffer of the tracked
\* track, and no error of that first decode has been dropped.
C11_OpenReportsFirstFrame ==
    (sym_pc = "idle" /\ caller = "new")
        => /\ event.kind = "frame"
           /\ channels = event.buf.channels
           /\ sample_rate = event.buf.rate

\* C12: with a known time base and frame count n_frames (0 included) the
\* timestamp handed to the demuxer is min(target timestamp, last frame
\* index), computed without integer underflow or overflow.
C12_SeekClampsToLastFrame ==
    (last_seek.kind # "none" /\ last_seek.par.time_base
        /\ last_seek.par.n_frames_known)
        => /\ ~last_seek.underflow
           /\ \/ last_seek.par.n_frames = 0
              \/ /\ last_seek.seek_to.kind = "TimeStamp"
                 /\ last_seek.seek_to.ts <= last_seek.target
                 /\ last_seek.seek_to.ts < last_seek.par.n_frames
                 /\ \/ last_seek.seek_to.ts = last_seek.target
                    \/ last_seek.seek_to.ts = last_seek.par.n_frames - 1

\* A step of set_sample_mult.
SetsSampleMult ==
    /\ sym_pc = "idle"
    /\ mult_arg'.set
    /\ (mult_arg' # mult_arg \/ sample_mult' # sample_mult)

\* The product of a sample and a gain of h halves, truncated toward zero.
IsTruncatedProduct(sample, raw, h) ==
    LET product == raw * h IN
    /\ product >= 0 => (2 * sample <= product /\ product < 2 * sample + 2)
    /\ product <= 0 => (product <= 2 * sample /\ 2 * sample - 2 < product)

\* A next_sample call that extracted a sample inside the buffer emits it
\* scaled by the stored gain and inside the 16-bit range, without panicking.
EmitsScaledSample ==
    (sym_pc \in {"idle", "decode_next_packet"}
        /\ result' # result /\ result'.kind \in {"Sample", "panic"})
        => \/ /\ result'.kind = "Sample"
              /\ result'.sample >= -32768
              /\ result'.sample <= 32767
              /\ IF sample_mult.nan
                 THEN result'.sample = 0
                 ELSE IsTruncatedProduct(result'.sample, result'.raw,
                                         sample_mult.halves)
           \/ /\ result'.kind = "panic"
              /\ \/ next_sample_idx' >= last_decoded'.frames
                 \/ next_channel_idx' >= Cardinality(last_decoded'.channels)

\* C13 as stated: set_sample_mult stores its argument clamped to [0.0, 1.0]
\* and changes nothing else; every sample emitted afterwards is the product
\* with the stored gain truncated toward zero, inside the 16-bit range, and
\* the conversion to 16 bits never fails.
C13_GainClampedForAll ==
    /\ [](mult_arg.set
            => /\ ~sample_mult.nan
               /\ sample_mult.halves >= 0
               /\ sample_mult.halves <= 2)
    /\ [][EmitsScaledSample]_vars

\* C13 as amended: for every argument that is not NaN set_sample_mult stores
\* it clamped to [0.0, 1.0] (2.0 stores 1.0, -1.0 stores 0.0); NaN is stored
\* as NaN; nothing else changes. Every sample emitted afterwards is the
\* product with the stored gain truncated toward zero (0 for a NaN gain),
\* lies in [-32768, 32767], and the conversion to 16 bits never fails.
C13_GainClamped ==
    /\ [](mult_arg.set
            => IF mult_arg.mult.nan
               THEN sample_mult.nan
               ELSE /\ ~sample_mult.nan
                    /\ sample_mult.halves >= 0
                    /\ sample_mult.halves <= 2
                    /\ mult_arg.mult.halves < 0 => sample_mult.halves = 0
                    /\ mult_arg.mult.halves > 2 => sample_mult.halves = 2
                    /\ mult_arg.mult.halves \in 0..2
                          => sample_mult.halves = mult_arg.mult.halves)
    /\ [][SetsSampleMult
            => UNCHANGED <<sym_pc, track_id, sample_rate, channels,
                           next_channel_idx, next_sample_idx, last_decoded,
                           remaining, result, failed>>]_vars
    /\ [][EmitsScaledSample]_vars

\* With the gain set to 0.5 the sample -3 has been emitted as -1.
C13_Witness ==
    /\ sym_pc = "idle"
    /\ mult_arg.set
    /\ mult_arg.mult = F32(1)
    /\ sample_mult = F32(1)
    /\ result.kind = "Sample"
    /\ result.raw = -3
    /\ result.sample = -1

\* C14: every next_sample call returns after finitely many steps when the
\* demuxer delivers finitely many packets before an error or the end of the
\* stream: the packet loop is always left, and each packet it skips is one
\* packet less to deliver.
C14_NextSampleTerminates ==
    /\ (sym_pc = "decode_next_packet") ~> (sym_pc # "decode_next_packet")
    /\ [][(sym_pc = "decode_next_packet" /\ sym_pc' = "decode_next_packet")
            => remaining' < remaining]_vars

\* A next_sample call has returned after its loop skipped packets until the
\* demuxer had none left.
C14_Witness ==
    /\ sym_pc = "idle"
    /\ caller = "next_sample"
    /\ remaining = 0
    /\ event.kind = "fetch_err"
    /\ result.kind = "Finished"

\* A step in which next_sample (or the decode it asked for) extracts a
\* sample: ch and idx are the indices handed to extract_sample.
Extracts(ch, idx) ==
    /\ sym_pc \in {"idle", "decode_next_packet"}
    /\ sym_pc' \in {"idle", "panicked"}
    /\ caller' = "next_sample"
    /\ last_seek' = NoSeek
    /\ \/ /\ result'.kind = "Sample"
          /\ <<next_channel_idx, next_sample_idx>>'
                # <<next_channel_idx, next_sample_idx>>
          /\ next_channel_idx' = ch + 1
       \/ /\ sym_pc' = "panicked"
          /\ next_channel_idx' = ch
    /\ next_sample_idx' = idx

\* C15: next_channel_idx never exceeds the channel count; when a sample is
\* extracted the channel index is below the channel count; and a call that
\* finds next_channel_idx at the channel count first resets it to 0 and
\* advances next_sample_idx by one. Metadata changes included.
C15_ChannelCursor ==
    /\ [](next_channel_idx <= Cardinality(channels))
    /\ [][\A ch \in 0..2 : Extracts(ch, next_sample_idx')
                              => ch < Cardinality(channels')]_vars
    /\ [][(sym_pc = "idle" /\ last_seek' = NoSeek
              /\ caller' = "next_sample"
              /\ <<sym_pc, next_channel_idx, next_sample_idx>>'
                    # <<sym_pc, next_channel_idx, next_sample_idx>>
              /\ next_channel_idx = Cardinality(channels))
            => \/ /\ sym_pc' = "decode_next_packet"
                  /\ next_channel_idx' = 0
                  /\ next_sample_idx' = next_sample_idx + 1
               \/ /\ sym_pc' = "idle"
                  /\ result'.kind = "Sample"
                  /\ result'.ch = 0
                  /\ result'.idx = next_sample_idx + 1
                  /\ next_channel_idx' = 1
                  /\ next_sample_idx' = next_sample_idx + 1]_vars

\* After a metadata change from two channels to one, the cursor has wrapped
\* at the new channel count and the second frame's sample was emitted.
C15_Witness ==
    /\ sym_pc = "idle"
    /\ result.kind = "Sample"
    /\ result.ch = 0
    /\ result.idx = 1
    /\ Cardinality(channels) = 1
    /\ next_channel_idx = 1
    /\ event = NoEvent

\* C16: whenever next_sample calls extract_sample, the frame index is below
\* the frame count of the current decoded frame and the channel index is
\* below that frame's channel count, a decoded frame of zero frames included.
C16_ExtractionInRange ==
    [][\A ch \in 0..2 :
          Extracts(ch, next_sample_idx')
              => /\ next_sample_idx' < last_decoded'.frames
                 /\ ch < Cardinality(last_decoded'.channels)]_vars

\* A step in which a next_sample call returns a sample.
ReturnsSample ==
    /\ sym_pc' = "idle"
    /\ caller' = "next_sample"
    /\ last_seek' = NoSeek
    /\ result'.kind = "Sample"
    /\ \/ sym_pc = "decode_next_packet"
       \/ sym_pc = "idle" /\ unread' # unread

\* The place of the sample just returned in the frame it was read from,
\* counting sample index by sample index and, within one, channel by channel.
PlaceInFrame == samples_of(last_decoded') - unread' - 1

\* C18: the samples next_sample returns are those of the decoded frames of
\* the track, each once, frame after frame, within a frame by increasing
\* sample index and for each index by channel; a frame is decoded only when
\* every sample of the frame before it has been returned.
C18_SamplesInOrder ==
    /\ [][ReturnsSample
            => /\ unread' = (IF DecodesFrame THEN samples_of(last_decoded')
                             ELSE unread) - 1
               /\ PlaceInFrame >= 0
               /\ PlaceInFrame < samples_of(last_decoded')
               /\ result'.idx = PlaceInFrame \div Cardinality(last_decoded'.channels)
               /\ result'.ch = PlaceInFrame % Cardinality(last_decoded'.channels)
               /\ ~DecodesFrame => last_decoded' = last_decoded]_vars
    /\ [][DecodesFrame => unread = 0]_vars
    /\ [][(unread' # unread) => (DecodesFrame \/ ReturnsSample)]_vars

\* The last sample of a frame of two frames and two channels has been
\* returned, after at least two packets.
C18_Witness ==
    /\ sym_pc = "idle"
    /\ result.kind = "Sample"
    /\ result.ch = 1
    /\ result.idx = 1
    /\ unread = 0
    /\ remaining < MaxPackets - 1

\* C20: a seek, successful or not, leaves the cursors, the recorded channels
\* and sample rate, the gain and the last decoded frame as they were; the
\* next_sample call after it returns the next unread sample of that frame
\* without taking a packet from the demuxer.
C20_SeekKeepsPlayback ==
    /\ [][(last_seek' # NoSeek)
            => /\ next_channel_idx' = next_channel_idx
               /\ next_sample_idx' = next_sample_idx
               /\ channels' = channels
               /\ sample_rate' = sample_rate
               /\ sample_mult' = sample_mult
               /\ last_decoded' = last_decoded
               /\ unread' = unread]_vars
    /\ [][(last_seek # NoSeek /\ last_seek' = NoSeek /\ unread > 0)
            => /\ sym_pc' = "idle"
               /\ result'.kind = "Sample"
               /\ remaining' = remaining
               /\ last_decoded' = last_decoded
               /\ unread' = unread - 1
               /\ result'.idx = PlaceInFrame \div Cardinality(last_decoded.channels)
               /\ result'.ch = PlaceInFrame % Cardinality(last_decoded.channels)]_vars

\* A seek in the middle of a frame has moved the demuxer back to the start;
\* one sample of the frame decoded before it is still unread.
C20_Witness ==
    /\ sym_pc = "idle"
    /\ last_seek.kind = "Ok"
    /\ result.kind = "Sample"
    /\ unread = 1
    /\ next_channel_idx = 1
    /\ remaining = MaxPackets

====
